---- MODULE Spec2Model ----
(***************************************************************************)
(* Beacon: the browser-local journal store, the legacy migration and the   *)
(* progress / streak record (src/src/js/beacon-storage.js), the journal    *)
(* editor (beacon-journal.js), the application start and the handlers of   *)
(* beacon-app.js, and the ESV lookups (beacon-esv.js).                     *)
(*                                                                         *)
(* JavaScript values are encoded uniformly:                                *)
(*   - a text is a sequence of one-character strings;                      *)
(*   - an optional value (undefined / null or a value) is a sequence of    *)
(*     length 0 or 1;                                                      *)
(*   - a number that may be NaN, or null after JSON, is a tagged record;   *)
(*   - a localStorage item is a record [kind, v]: kind "absent" is         *)
(*     getItem() === null, "corrupt" is text JSON.parse rejects.           *)
(* Time is counted in hours.                                               *)
(***************************************************************************)
EXTENDS Integers, Sequences, FiniteSets, TLC

VARIABLES
    ls,                     \* localStorage, by STORAGE_KEYS name
    quota,                  \* how many setItem calls still fit the storage quota
    now,                    \* Date.now(), in hours
    zone,                   \* the local time zone's calendar
    nextId,                 \* the ids generateUUID has handed out so far
    currentEditingEntry,    \* beacon-journal.js module state
    currentEditingContext,  \* beacon-journal.js module state
    dom,                    \* the journal modal: shown or not, and its prompt text
    screen,                 \* which of setup-screen / main-app is displayed
    tabs,                   \* per browsing context: a store mutation under way
    esv,                    \* the ESV modals: results area and requests in flight
    lastCall                \* the most recent call: its inputs, result and pre-state

vars == <<ls, quota, now, zone, nextId, currentEditingEntry,
          currentEditingContext, dom, screen, tabs, esv, lastCall>>

\* the state of the journal editor
editorVars == <<currentEditingEntry, currentEditingContext, dom>>

\* what is under way across turns of the event loop and across contexts
asyncVars == <<tabs, esv>>

----------------------------------------------------------------------------
(* Bounds of the model *)

\* legacy records hold at most this many key/value pairs
MaxItems == 2
\* migrate() is called at most this many times in a row
MaxMigrateCalls == 2
\* the clock runs over the calendar days 0..MaxDay
MaxDay == 3
\* the editor creates entries while fewer than this many ids were handed out
MaxIds == 3
\* the application runs for at most this many hours
MaxTicks == 1

----------------------------------------------------------------------------
(* Generic helpers *)

\* text literals
Empty == <<>>
Blank == <<" ">>
TextX == <<"x">>
TextPadX == <<" ", "x", " ">>
TextY == <<"y">>

\* String.prototype.trim
RECURSIVE TrimLeft(_)
TrimLeft(s) == IF s # <<>> /\ Head(s) = " " THEN TrimLeft(Tail(s)) ELSE s

RECURSIVE TrimRight(_)
TrimRight(s) ==
    IF s # <<>> /\ s[Len(s)] = " " THEN TrimRight(SubSeq(s, 1, Len(s) - 1)) ELSE s

Trim(s) == TrimRight(TrimLeft(s))

\* typed JavaScript primitives held by a legacy object's content / text field
Str(s) == [t |-> "string", s |-> s]
NumberValue == [t |-> "number", s |-> <<>>]

\* numbers as parseInt returns them and as JSON stores them
Num(n) == [t |-> "number", n |-> n]
NaN == [t |-> "NaN", n |-> 0]
JsonNull == [t |-> "null", n |-> 0]

\* truthiness of an optional field holding a typed primitive
Truthy(opt) == opt # <<>> /\ (opt[1].t = "string" => opt[1].s # <<>>)

\* a || b
OrElse(a, b) == IF Truthy(a) THEN a ELSE b

----------------------------------------------------------------------------
(* localStorage *)

Absent == [kind |-> "absent", v |-> <<>>]
Corrupt == [kind |-> "corrupt", v |-> <<>>]
Json(v) == [kind |-> "json", v |-> v]

NoQuota == [limited |-> FALSE, left |-> 0]

\* whether the next setItem fits the quota
CanWrite(q) == ~q.limited \/ q.left > 0
AfterWrite(q) == IF q.limited THEN [q EXCEPT !.left = q.left - 1] ELSE q

\* a stored item that parses but is not an array (an object, a number)
NotArray == [kind |-> "notarray", v |-> <<>>]

\* localStorage.setItem / removeItem on the five documents of STORAGE_KEYS
setItem(store, key, doc) == [store EXCEPT ![key] = doc]
removeItem(store, key) == [store EXCEPT ![key] = Absent]

----------------------------------------------------------------------------
(* Entries *)

NullContext == <<>>
Context(w, d, p) == <<[week |-> w, day |-> d, promptIndex |-> p]>>

\* generateUUID: the n-th id handed out (collisions are taken as impossible)
generateUUID(n) == n + 1

createEntry(type, content, prompt, context, t, n) ==
    [id |-> generateUUID(n), type |-> type, content |-> content,
     prompt |-> prompt, context |-> context, createdAt |-> t, updatedAt |-> t]

\* JSON.stringify then JSON.parse of one number: NaN is written as null
JsonNumber(x) == IF x.t = "NaN" THEN JsonNull ELSE x

\* JSON.stringify then JSON.parse of an entry
JsonEntry(e) ==
    IF e.context = <<>> THEN e
    ELSE [e EXCEPT !.context =
            <<[week |-> JsonNumber(e.context[1].week),
               day |-> JsonNumber(e.context[1].day),
               promptIndex |-> JsonNumber(e.context[1].promptIndex)]>>]

JsonEntries(es) == [i \in 1..Len(es) |-> JsonEntry(es[i])]

\* getAllEntries: the parsed document; [] when absent or unparseable
getAllEntries(store) ==
    IF store.ENTRIES.kind = "json" THEN store.ENTRIES.v ELSE <<>>

\* whether what getAllEntries returns can be iterated (an array)
EntriesIterable(store) == store.ENTRIES.kind # "notarray"

----------------------------------------------------------------------------
(* Legacy migration *)

\* String.prototype.split('-')
RECURSIVE SplitDash(_, _, _)
SplitDash(s, cur, acc) ==
    IF s = <<>> THEN Append(acc, cur)
    ELSE IF Head(s) = "-" THEN SplitDash(Tail(s), <<>>, Append(acc, cur))
    ELSE SplitDash(Tail(s), Append(cur, Head(s)), acc)

split(key) == SplitDash(key, <<>>, <<>>)

DigitChars == {"0", "1", "2", "3", "4", "5", "6", "7", "8", "9"}

DigitVal(c) ==
    CASE c = "0" -> 0 [] c = "1" -> 1 [] c = "2" -> 2 [] c = "3" -> 3
      [] c = "4" -> 4 [] c = "5" -> 5 [] c = "6" -> 6 [] c = "7" -> 7
      [] c = "8" -> 8 [] c = "9" -> 9

\* the longest prefix of digits, read in base 10
RECURSIVE ReadDigits(_, _, _)
ReadDigits(s, acc, seen) ==
    IF s # <<>> /\ Head(s) \in DigitChars
    THEN ReadDigits(Tail(s), 10 * acc + DigitVal(Head(s)), TRUE)
    ELSE IF seen THEN Num(acc) ELSE NaN

\* parseInt(s, 10): leading white space and a sign are skipped, the digits up
\* to the first other character are read, and NaN is returned when there is none
parseInt(s) ==
    LET t == TrimLeft(s)
    IN IF t # <<>> /\ Head(t) = "+" THEN ReadDigits(Tail(t), 0, FALSE)
       ELSE ReadDigits(t, 0, FALSE)

parseContextFromLegacyKey(key) ==
    LET parts == split(key)
    IN IF Len(parts) = 3
       THEN Context(parseInt(parts[1]), parseInt(parts[2]), parseInt(parts[3]))
       ELSE NullContext

\* a legacy value: typeof value is "string", "number" or "object" (t = "null"
\* is the value null, whose typeof is "object" too)
StringValue(s) ==
    [t |-> "string", s |-> s, content |-> <<>>, text |-> <<>>, prompt |-> <<>>,
     createdAt |-> <<>>, updatedAt |-> <<>>]
ObjectValue(content, text, prompt, createdAt, updatedAt) ==
    [t |-> "object", s |-> <<>>, content |-> content, text |-> text,
     prompt |-> prompt, createdAt |-> createdAt, updatedAt |-> updatedAt]
NullValue ==
    [t |-> "null", s |-> <<>>, content |-> <<>>, text |-> <<>>, prompt |-> <<>>,
     createdAt |-> <<>>, updatedAt |-> <<>>]
NumericValue ==
    [t |-> "number", s |-> <<>>, content |-> <<>>, text |-> <<>>, prompt |-> <<>>,
     createdAt |-> <<>>, updatedAt |-> <<>>]

\* typeof value === 'string' ? value : (value.content || value.text || '')
LegacyContent(value) ==
    IF value.t = "string" THEN <<Str(value.s)>>
    ELSE OrElse(OrElse(value.content, value.text), <<Str(<<>>)>>)

\* typeof value === 'object' ? (value.prompt || '') : ''
LegacyPrompt(value) ==
    IF value.t = "object" THEN OrElse(value.prompt, <<Str(<<>>)>>)[1].s ELSE <<>>

\* variant: a loop in which no value raises, so an unreadable value is skipped
ItemNeverThrows(value) == FALSE

\* reading value.content of null, or calling trim on a content that is no
\* string, raises a TypeError
ItemThrows(value) ==
    \/ value.t = "null"
    \/ LegacyContent(value)[1].t # "string"

\* if (content.trim())
ItemKept(value) == Trim(LegacyContent(value)[1].s) # <<>>

\* the timestamps of the migrated entry
LegacyStamps(value, entry) ==
    IF value.t = "object" /\ value.createdAt # <<>>
    THEN [entry EXCEPT !.createdAt = value.createdAt[1],
                       !.updatedAt = IF value.updatedAt # <<>>
                                     THEN value.updatedAt[1]
                                     ELSE value.createdAt[1]]
    ELSE entry

\* the body of the loop over Object.entries(parsed), for an item that is kept
ConvertItem(key, value, t, n) ==
    LET context == parseContextFromLegacyKey(key)
        isReflection == context # NullContext
        entry == createEntry(IF isReflection THEN "reflection" ELSE "free",
                             LegacyContent(value)[1].s, LegacyPrompt(value),
                             context, t, n)
    IN LegacyStamps(value, entry)

\* the loop: [threw, entries, n]
RECURSIVE ConvertAll(_, _, _, _)
ConvertAll(items, t, n, acc) ==
    IF items = <<>> THEN [threw |-> FALSE, entries |-> acc, n |-> n]
    ELSE LET key == Head(items)[1]
             value == Head(items)[2]
         IN IF ItemThrows(value) THEN [threw |-> TRUE, entries |-> acc, n |-> n]
            ELSE IF ItemKept(value)
            THEN ConvertAll(Tail(items), t, n + 1,
                            Append(acc, ConvertItem(key, value, t, n)))
            ELSE ConvertAll(Tail(items), t, n, acc)

MigrationResult(migrated, count, error) ==
    [migrated |-> migrated, count |-> count, error |-> error]

\* variant: the writes of a migration that replaces the collection instead of
\* appending to it
ReplacingWrites(store, q, entries, legacyData) ==
    IF ~EntriesIterable(store) \/ ~CanWrite(q)
    THEN [threw |-> TRUE, store |-> store, quota |-> q]
    ELSE [threw |-> FALSE,
          store |-> removeItem(
                       setItem(setItem(store, "ENTRIES", Json(JsonEntries(entries))),
                               "LEGACY_JOURNALS_ARCHIVED", legacyData),
                       "LEGACY_JOURNALS"),
          quota |-> AfterWrite(AfterWrite(q))]

\* the writes of a migration that produced entries: [threw, store, quota]
MigrationWrites(store, q, entries, legacyData) ==
    IF ~EntriesIterable(store) \/ ~CanWrite(q)
    THEN [threw |-> TRUE, store |-> store, quota |-> q]
    ELSE LET merged == getAllEntries(store) \o entries
             s1 == setItem(store, "ENTRIES", Json(JsonEntries(merged)))
             q1 == AfterWrite(q)
         IN IF ~CanWrite(q1)
            THEN [threw |-> TRUE, store |-> s1, quota |-> q1]
            ELSE [threw |-> FALSE,
                  store |-> removeItem(
                               setItem(s1, "LEGACY_JOURNALS_ARCHIVED", legacyData),
                               "LEGACY_JOURNALS"),
                  quota |-> AfterWrite(q1)]

\* migrateFromLegacy(): [store, quota, n, result]
migrateFromLegacy(store, q, t, n) ==
    LET legacyData == store.LEGACY_JOURNALS
        failed == MigrationResult(FALSE, 0, TRUE)
    IN IF legacyData.kind = "absent"
       THEN [store |-> store, quota |-> q, n |-> n,
             result |-> MigrationResult(FALSE, 0, FALSE)]
       ELSE IF legacyData.kind = "corrupt"
       THEN [store |-> store, quota |-> q, n |-> n, result |-> failed]
       ELSE LET conv == ConvertAll(legacyData.v, t, n, <<>>)
            IN IF conv.threw
               THEN [store |-> store, quota |-> q, n |-> conv.n, result |-> failed]
               ELSE IF Len(conv.entries) > 0
               THEN LET w == MigrationWrites(store, q, conv.entries, legacyData)
                    IN [store |-> w.store, quota |-> w.quota, n |-> conv.n,
                        result |-> IF w.threw THEN failed
                                   ELSE MigrationResult(TRUE, Len(conv.entries), FALSE)]
               ELSE [store |-> store, quota |-> q, n |-> conv.n,
                     result |-> MigrationResult(TRUE, 0, FALSE)]

----------------------------------------------------------------------------
(* The legacy records and stores the migration is run on *)

KeyReflection == <<"1", "-", "2", "-", "0">>
KeyPadded == <<"0", "1", "-", "2", "-", "0">>
KeyOther == <<"2", "-", "1", "-", "1">>
KeyNote == <<"n", "o", "t", "e">>
KeyLetters == <<"a", "-", "b", "-", "c">>
KeyFreeNote == <<"m", "y", "-", "f", "r", "e", "e", "-", "n", "o", "t", "e">>
KeyTwoParts == <<"1", "-", "2">>
KeyFourParts == <<"1", "-", "2", "-", "0", "-", "3">>
KeyTrailing == <<"1", "-", "2", "-", "0", "x">>

LegacyKeys ==
    {KeyReflection, KeyPadded, KeyOther, KeyNote, KeyLetters, KeyFreeNote,
     KeyTwoParts, KeyFourParts, KeyTrailing}

\* the timestamps legacy values carry lie in 1..MaxLegacyStamp
MaxLegacyStamp == 2

PromptP == <<"p">>

LegacyValues ==
    {StringValue(Empty), StringValue(Blank), StringValue(TextX),
     StringValue(TextPadX), NullValue, NumericValue,
     ObjectValue(<<>>, <<>>, <<>>, <<>>, <<>>),
     ObjectValue(<<Str(TextX)>>, <<>>, <<>>, <<>>, <<>>),
     ObjectValue(<<>>, <<Str(TextY)>>, <<>>, <<>>, <<>>),
     ObjectValue(<<Str(Empty)>>, <<Str(TextY)>>, <<>>, <<>>, <<>>),
     ObjectValue(<<Str(Blank)>>, <<Str(TextY)>>, <<>>, <<>>, <<>>),
     ObjectValue(<<Str(TextX)>>, <<>>, <<Str(PromptP)>>, <<>>, <<>>),
     ObjectValue(<<NumberValue>>, <<>>, <<>>, <<>>, <<>>),
     ObjectValue(<<Str(TextX)>>, <<>>, <<>>, <<1>>, <<>>),
     ObjectValue(<<Str(TextX)>>, <<>>, <<>>, <<>>, <<MaxLegacyStamp>>),
     ObjectValue(<<Str(TextX)>>, <<>>, <<>>, <<1>>, <<MaxLegacyStamp>>),
     ObjectValue(<<Str(TextX)>>, <<>>, <<>>, <<MaxLegacyStamp>>, <<1>>)}

\* every key with a plain text, and every value under two of the keys
LegacyItems ==
    {<<k, StringValue(TextX)>> : k \in LegacyKeys}
        \cup {<<k, v>> : k \in {KeyNote, KeyReflection}, v \in LegacyValues}

\* Object.entries of a parsed record: its keys are distinct
LegacyRecords ==
    {r \in UNION {[1..n -> LegacyItems] : n \in 0..MaxItems} :
        \A i, j \in 1..Len(r) : i # j => r[i][1] # r[j][1]}

LegacyDocs == {Absent, Corrupt} \cup {Json(r) : r \in LegacyRecords}

\* a reflection saved through the editor before the migration ran
EarlierEntry ==
    [id |-> 1, type |-> "reflection", content |-> TextY, prompt |-> PromptP,
     context |-> Context(Num(1), Num(2), Num(0)), createdAt |-> 0, updatedAt |-> 0]

NoCall == [op |-> "none", n |-> 0, result |-> <<>>, pre |-> <<>>]

\* the browsing contexts (tabs) of the origin, which share localStorage
TabIds == {1, 2}

\* a context that is not inside a store mutation
IdleTab == [pc |-> "idle", op |-> <<>>, entries |-> Absent, missed |-> {}]
NoTabs == [c \in TabIds |-> IdleTab]

\* the verse-lookup and the topic-search modal
EsvModals == {"lookup", "search"}

\* a results area with innerHTML = ''
NoResults == [shows |-> "nothing", of |-> 0, q |-> <<>>]

\* a modal that was not used yet: nothing shown, no request in flight
EsvUnused ==
    [results |-> NoResults, pending |-> {}, submitted |-> 0, overlapped |-> FALSE]
NoEsv == [m \in EsvModals |-> EsvUnused]

\* the journal modal before any editor was opened
ModalClosed == [active |-> FALSE, promptText |-> <<>>]

\* a page that has not run initApp yet, with unlimited storage
InitOther ==
    /\ quota = NoQuota
    /\ zone = "utc"
    /\ nextId = 1
    /\ currentEditingEntry = <<>>
    /\ currentEditingContext = NullContext
    /\ dom = ModalClosed
    /\ screen = "none"
    /\ tabs = NoTabs
    /\ esv = NoEsv
    /\ lastCall = NoCall

InitMig ==
    /\ ls \in [ENTRIES : {Absent, Corrupt, NotArray, Json(<<EarlierEntry>>)},
               PROGRESS : {Absent},
               USER : {Absent},
               LEGACY_JOURNALS : LegacyDocs,
               LEGACY_JOURNALS_ARCHIVED : {Absent}]
    /\ now = MaxLegacyStamp + 1
    /\ InitOther

\* a call of migrateFromLegacy()
Migrate ==
    /\ lastCall.n < MaxMigrateCalls
    /\ LET r == migrateFromLegacy(ls, quota, now, nextId)
       IN /\ ls' = r.store
          /\ quota' = r.quota
          /\ nextId' = r.n
          /\ lastCall' = [op |-> "migrate", n |-> lastCall.n + 1,
                          result |-> r.result, pre |-> ls]
    /\ UNCHANGED <<now, zone, editorVars, screen, asyncVars>>

NextMig == Migrate

SpecMig == InitMig /\ [][NextMig]_vars

----------------------------------------------------------------------------
(* Claims about the legacy migration, checked under SpecMig *)

Migrated == lastCall.op = "migrate"
Succeeded == Migrated /\ lastCall.result.migrated

\* the text the spec's step 4 extracts from a legacy value
ItemText(v) ==
    IF v.t = "string" THEN v.s
    ELSE IF Truthy(v.content) THEN v.content[1].s
    ELSE IF Truthy(v.text) THEN v.text[1].s
    ELSE <<>>

HasText(item) == Trim(ItemText(item[2])) # <<>>

\* the items of the record the last call processed that carry text, in order
KeptItems == SelectSeq(lastCall.pre.LEGACY_JOURNALS.v, HasText)

\* the entries the last call appended
Appended ==
    SubSeq(getAllEntries(ls), Len(getAllEntries(lastCall.pre)) + 1,
           Len(getAllEntries(ls)))

\* C1: calling migrate() twice in a row, the second call returns
\* {migrated: false, count: 0} and leaves the entry collection as the first
\* call left it, for every legacy record.
C1_SecondMigrateIsNoop ==
    (Migrated /\ lastCall.n >= 2) =>
        /\ lastCall.result.migrated = FALSE
        /\ lastCall.result.count = 0
        /\ ls.ENTRIES = lastCall.pre.ENTRIES

\* a value that is neither text nor a structured object with a text content
MalformedValue(v) ==
    \/ v.t = "null"
    \/ v.t = "object" /\ Truthy(v.content) /\ v.content[1].t # "string"

MalformedLegacy(doc) ==
    \/ doc.kind = "corrupt"
    \/ doc.kind = "json" /\ \E i \in 1..Len(doc.v) : MalformedValue(doc.v[i][2])

C4_MigratedMeansArchived ==
    Succeeded =>
        /\ ls.LEGACY_JOURNALS = Absent
        /\ ls.LEGACY_JOURNALS_ARCHIVED = lastCall.pre.LEGACY_JOURNALS

\* C5: after a successful migrate() the collection is the previous collection,
\* unchanged and in order, followed by one entry per legacy item with
\* non-empty trimmed content; count is the number of entries appended.
C5_AdditiveMerge ==
    Succeeded =>
        LET old == getAllEntries(lastCall.pre)
            cur == getAllEntries(ls)
        IN /\ Len(cur) = Len(old) + Len(KeptItems)
           /\ SubSeq(cur, 1, Len(old)) = old
           /\ lastCall.result.count = Len(KeptItems)
           /\ \A i \in 1..Len(KeptItems) :
                 cur[Len(old) + i].content = ItemText(KeptItems[i][2])

\* an earlier entry is kept, one item is appended and one is dropped
C5_Witness ==
    /\ Succeeded
    /\ Len(getAllEntries(lastCall.pre)) = 1
    /\ lastCall.result.count = 1
    /\ Len(lastCall.pre.LEGACY_JOURNALS.v) = 2
    /\ Len(getAllEntries(ls)) = 2

\* a key made of exactly three components of digits
AllDigits(part) == part # <<>> /\ \A i \in 1..Len(part) : part[i] \in DigitChars

IsNumericTriple(key) ==
    Len(split(key)) = 3 /\ \A i \in 1..3 : AllDigits(split(key)[i])

\* C6: a legacy key yields a reflection entry with context
\* (week, day, promptIndex) exactly when it consists of three numeric
\* components separated by '-', and a free entry with context null otherwise.
C6_ReflectionIffNumericTriple ==
    Succeeded =>
        \A i \in 1..Len(KeptItems) :
            LET key == KeptItems[i][1]
                e == Appended[i]
            IN IF IsNumericTriple(key)
               THEN /\ e.type = "reflection"
                    /\ e.context = Context(parseInt(split(key)[1]),
                                           parseInt(split(key)[2]),
                                           parseInt(split(key)[3]))
               ELSE e.type = "free" /\ e.context = NullContext

\* C7: each of createdAt and updatedAt the legacy value carries is copied to
\* the migrated entry; only a timestamp it lacks is the migration time.
C7_EachStampCopied ==
    Succeeded =>
        \A i \in 1..Len(KeptItems) :
            LET v == KeptItems[i][2]
                e == Appended[i]
            IN v.t = "object" =>
                 /\ e.createdAt = IF v.createdAt # <<>> THEN v.createdAt[1] ELSE now
                 /\ e.updatedAt = IF v.updatedAt # <<>> THEN v.updatedAt[1] ELSE now

----------------------------------------------------------------------------
(* The migration on a storage that is close to its quota *)

\* the writes the storage accepts before its quota is exceeded
MaxMigrationWrites == 1

InitMigQuota ==
    /\ ls \in [ENTRIES : {Absent, Json(<<EarlierEntry>>)},
               PROGRESS : {Absent},
               USER : {Absent},
               LEGACY_JOURNALS : LegacyDocs,
               LEGACY_JOURNALS_ARCHIVED : {Absent}]
    /\ quota \in {[limited |-> TRUE, left |-> k] : k \in 0..MaxMigrationWrites}
    /\ zone = "utc"
    /\ now = MaxLegacyStamp + 1
    /\ nextId = 1
    /\ currentEditingEntry = <<>>
    /\ currentEditingContext = NullContext
    /\ dom = ModalClosed
    /\ screen = "none"
    /\ tabs = NoTabs
    /\ esv = NoEsv
    /\ lastCall = NoCall

SpecMigQuota == InitMigQuota /\ [][NextMig]_vars

\* C29: migration is all-or-nothing with respect to storage write failures:
\* if a write inside migrate() fails, no entries derived from the legacy
\* record are left in the persisted collection while the legacy record is
\* still present.
C29_MigrationAllOrNothing ==
    (Migrated /\ lastCall.result.error /\ ls.LEGACY_JOURNALS # Absent) =>
        getAllEntries(ls) = getAllEntries(lastCall.pre)

----------------------------------------------------------------------------
(* The clock and the local calendar *)

\* 86400000 ms
HoursPerDay == 24

\* the calendar day on which the zone's clocks change, if they do
ChangeDay == 1

\* the length of local calendar day d: a day on which the clocks are set back
\* has 25 hours, one on which they are set forward has 23
DayLength(z, d) ==
    IF d # ChangeDay THEN HoursPerDay
    ELSE IF z = "fall" THEN HoursPerDay + 1
    ELSE IF z = "spring" THEN HoursPerDay - 1
    ELSE HoursPerDay

\* the hour at which local calendar day d >= 0 begins
RECURSIVE DayStart(_, _)
DayStart(z, d) == IF d = 0 THEN 0 ELSE DayStart(z, d - 1) + DayLength(z, d - 1)

RECURSIVE DateFrom(_, _, _)
DateFrom(z, t, d) == IF t < DayStart(z, d + 1) THEN d ELSE DateFrom(z, t, d + 1)

\* new Date(t).toDateString(): the local calendar day that holds hour t
toDateString(z, t) ==
    IF t >= 0 THEN DateFrom(z, t, 0) ELSE -(((-t) - 1) \div HoursPerDay) - 1

\* the hours at which the model looks at the clock: the first hour, noon and
\* the last hour of each day
ClockPoints(z) ==
    UNION {{DayStart(z, d), DayStart(z, d) + 12, DayStart(z, d + 1) - 1} :
              d \in 0..MaxDay}

----------------------------------------------------------------------------
(* Progress *)

DefaultProgress ==
    [currentWeek |-> 1, currentDay |-> 1, completedDays |-> <<>>,
     streak |-> 0, lastCompletedDate |-> <<>>]

\* getProgress: the parsed document; the default when absent or unparseable
getProgress(store) ==
    IF store.PROGRESS.kind = "json" THEN store.PROGRESS.v ELSE DefaultProgress

\* `${week}-${day}`
DayKey(week, day) == <<week, day>>

\* progress.completedDays[key] is set (an own property holding a timestamp)
HasKey(completedDays, key) ==
    \E i \in 1..Len(completedDays) : completedDays[i].key = key

\* variant: a streak that restarts at 0
NextStreakFromZero(progress, z, t) ==
    LET today == toDateString(z, t)
        lastDate == IF progress.lastCompletedDate # <<>>
                    THEN <<toDateString(z, progress.lastCompletedDate[1])>>
                    ELSE <<>>
    IN IF lastDate = <<today>> THEN progress.streak
       ELSE IF lastDate = <<toDateString(z, t - HoursPerDay)>>
       THEN progress.streak + 1
       ELSE 0

\* the streak after a completion at hour t
NextStreak(progress, z, t) ==
    LET today == toDateString(z, t)
        lastDate == IF progress.lastCompletedDate # <<>>
                    THEN <<toDateString(z, progress.lastCompletedDate[1])>>
                    ELSE <<>>
    IN IF lastDate = <<today>> THEN progress.streak
       ELSE IF lastDate = <<toDateString(z, t - HoursPerDay)>>
       THEN progress.streak + 1
       ELSE 1

\* variant: a cursor that skips a day
NextCursorSkipping(progress, week, day) ==
    IF week = progress.currentWeek /\ day = progress.currentDay
    THEN IF day < 6 THEN <<progress.currentWeek, day + 2>> ELSE <<week + 1, 1>>
    ELSE <<progress.currentWeek, progress.currentDay>>

\* variant: a cursor that moves to the next day without wrapping to the next week
NextCursorNoWrap(progress, week, day) ==
    IF week = progress.currentWeek /\ day = progress.currentDay
    THEN <<progress.currentWeek, day + 1>>
    ELSE <<progress.currentWeek, progress.currentDay>>

\* the cursor after completing (week, day)
NextCursor(progress, week, day) ==
    IF week = progress.currentWeek /\ day = progress.currentDay
    THEN IF day < 7 THEN <<progress.currentWeek, day + 1>> ELSE <<week + 1, 1>>
    ELSE <<progress.currentWeek, progress.currentDay>>

\* variant: a record that keeps only the day just completed
CompletedProgressOnlyLast(progress, week, day, z, t) ==
    [currentWeek |-> NextCursor(progress, week, day)[1],
     currentDay |-> NextCursor(progress, week, day)[2],
     completedDays |-> <<[key |-> DayKey(week, day), at |-> t]>>,
     streak |-> NextStreak(progress, z, t),
     lastCompletedDate |-> <<t>>]

\* the record markDayComplete saves for a day not completed before
CompletedProgress(progress, week, day, z, t) ==
    [currentWeek |-> NextCursor(progress, week, day)[1],
     currentDay |-> NextCursor(progress, week, day)[2],
     completedDays |->
         Append(progress.completedDays, [key |-> DayKey(week, day), at |-> t]),
     streak |-> NextStreak(progress, z, t),
     lastCompletedDate |-> <<t>>]

\* variant: a saveProgress that logs a failed write and returns
saveProgressSilently(store, q, progress) ==
    IF CanWrite(q)
    THEN [threw |-> FALSE, store |-> setItem(store, "PROGRESS", Json(progress)),
          quota |-> AfterWrite(q)]
    ELSE [threw |-> FALSE, store |-> store, quota |-> q]

\* saveProgress: [threw, store, quota]
saveProgress(store, q, progress) ==
    IF CanWrite(q)
    THEN [threw |-> FALSE, store |-> setItem(store, "PROGRESS", Json(progress)),
          quota |-> AfterWrite(q)]
    ELSE [threw |-> TRUE, store |-> store, quota |-> q]

\* variant: markDayComplete without the test for a day completed already
markDayCompleteUnguarded(store, q, week, day, z, t) ==
    LET updated == CompletedProgress(getProgress(store), week, day, z, t)
        saved == saveProgress(store, q, updated)
    IN [threw |-> saved.threw, store |-> saved.store,
        quota |-> saved.quota, result |-> updated]

\* markDayComplete(week, day): [threw, store, quota, result]
markDayComplete(store, q, week, day, z, t) ==
    LET progress == getProgress(store)
    IN IF ~HasKey(progress.completedDays, DayKey(week, day))
       THEN LET updated == CompletedProgress(progress, week, day, z, t)
                saved == saveProgress(store, q, updated)
            IN [threw |-> saved.threw, store |-> saved.store,
                quota |-> saved.quota, result |-> updated]
       ELSE [threw |-> FALSE, store |-> store, quota |-> q, result |-> progress]

\* the days markDayComplete is called with: the first cursor day, the day
\* after it and a day of another week
CompletableDays == {<<1, 1>>, <<1, 2>>, <<2, 1>>}

InitProg ==
    /\ ls = [ENTRIES |-> Absent, PROGRESS |-> Absent, USER |-> Absent,
             LEGACY_JOURNALS |-> Absent, LEGACY_JOURNALS_ARCHIVED |-> Absent]
    /\ zone \in {"utc", "fall", "spring"}
    /\ now \in {t \in ClockPoints(zone) : t < DayStart(zone, 1)}
    /\ quota = NoQuota
    /\ nextId = 0
    /\ currentEditingEntry = <<>>
    /\ currentEditingContext = NullContext
    /\ dom = ModalClosed
    /\ screen = "main"
    /\ tabs = NoTabs
    /\ esv = NoEsv
    /\ lastCall = NoCall

\* time passes; lastCall describes only a call that has just returned
PassTime ==
    /\ \E t \in ClockPoints(zone) : t > now /\ now' = t
    /\ lastCall' = NoCall
    /\ UNCHANGED <<ls, quota, zone, nextId, editorVars, screen, asyncVars>>

\* a call of markDayComplete(week, day)
MarkDayComplete ==
    \E week \in 1..2, day \in 1..7 :
        /\ <<week, day>> \in CompletableDays
        /\ LET r == markDayComplete(ls, quota, week, day, zone, now)
           IN /\ ls' = r.store
              /\ quota' = r.quota
              /\ lastCall' = [op |-> "markDayComplete", n |-> 1,
                              result |-> [threw |-> r.threw, progress |-> r.result,
                                          week |-> week, day |-> day, at |-> now],
                              pre |-> ls]
        /\ UNCHANGED <<now, zone, nextId, editorVars, screen, asyncVars>>

NextProg == PassTime \/ MarkDayComplete

SpecProg == InitProg /\ [][NextProg]_vars

----------------------------------------------------------------------------
(* Claims about the progress record, checked under SpecProg *)

Marked == lastCall.op = "markDayComplete"

\* the progress record the last call read
ProgressBefore == getProgress(lastCall.pre)

\* the last call was for a day that was not completed yet
MarkedNewDay ==
    /\ Marked
    /\ ~HasKey(ProgressBefore.completedDays,
               DayKey(lastCall.result.week, lastCall.result.day))

\* the last call was for a day that was completed already
MarkedAgain ==
    /\ Marked
    /\ HasKey(ProgressBefore.completedDays,
              DayKey(lastCall.result.week, lastCall.result.day))

\* C8: markDayComplete on a day not yet completed leaves the streak unchanged
\* when lastCompletedDate falls on today, adds 1 when it falls on yesterday,
\* and sets it to 1 otherwise (calendar dates are compared).
C8_StreakByCalendarDate ==
    MarkedNewDay =>
        LET p == ProgressBefore
            today == toDateString(zone, lastCall.result.at)
        IN lastCall.result.progress.streak =
              IF p.lastCompletedDate = <<>> THEN 1
              ELSE IF toDateString(zone, p.lastCompletedDate[1]) = today
              THEN p.streak
              ELSE IF toDateString(zone, p.lastCompletedDate[1]) = today - 1
              THEN p.streak + 1
              ELSE 1

\* the calendar days on which a completion was recorded
CompletionDates(progress) ==
    {toDateString(zone, progress.completedDays[i].at) :
        i \in 1..Len(progress.completedDays)}

\* the number of consecutive days, ending with day d, that are in the set
RECURSIVE RunLength(_, _)
RunLength(dates, d) == IF d \in dates THEN 1 + RunLength(dates, d - 1) ELSE 0

\* C9: the stored streak is the number of consecutive calendar days, ending
\* with the day of lastCompletedDate, on each of which a day was completed.
C9_StreakIsRunOfDays ==
    LET p == getProgress(ls)
    IN p.streak =
          IF p.lastCompletedDate = <<>> THEN 0
          ELSE RunLength(CompletionDates(p),
                         toDateString(zone, p.lastCompletedDate[1]))

\* C10: markDayComplete on a day already in completedDays changes nothing and
\* returns the stored progress, whatever the current date is.
C10_RepeatedCompletionIsNoop ==
    MarkedAgain =>
        /\ ~lastCall.result.threw
        /\ ls = lastCall.pre
        /\ lastCall.result.progress = getProgress(ls)

\* the cursor day is completed again, two or more days after the last completion
C10_Witness ==
    /\ MarkedAgain
    /\ lastCall.result.week = 1
    /\ lastCall.result.day = 1
    /\ getProgress(ls).streak = 2
    /\ toDateString(zone, now) >
           toDateString(zone, getProgress(ls).lastCompletedDate[1]) + 1

\* C27: after any sequence of markDayComplete calls, in any order of days,
\* starting from the default progress, the cursor (currentWeek, currentDay)
\* is never a day that is already in completedDays.
C27_CursorDayNotCompleted ==
    ~HasKey(getProgress(ls).completedDays,
            DayKey(getProgress(ls).currentWeek, getProgress(ls).currentDay))

----------------------------------------------------------------------------
(* Entry store: queries and mutations *)

\* the position of the first TRUE of a sequence of test results, or 0
FirstIndex(hits) ==
    IF \E i \in 1..Len(hits) : hits[i]
    THEN CHOOSE i \in 1..Len(hits) : hits[i] /\ \A j \in 1..(i - 1) : ~hits[j]
    ELSE 0

\* getEntryById: the entry, or null
getEntryById(store, id) ==
    LET es == getAllEntries(store)
        i == FirstIndex([k \in 1..Len(es) |-> es[k].id = id])
    IN IF i = 0 THEN <<>> ELSE <<es[i]>>

\* variant: a getEntryByContext that compares week and day only
getEntryByContextAnyPrompt(store, week, day, promptIndex) ==
    LET es == getAllEntries(store)
        i == FirstIndex([k \in 1..Len(es) |->
                 /\ es[k].context # <<>>
                 /\ es[k].context[1].week = Num(week)
                 /\ es[k].context[1].day = Num(day)])
    IN IF i = 0 THEN <<>> ELSE <<es[i]>>

\* getEntryByContext: the first entry with that context, or null
getEntryByContext(store, week, day, promptIndex) ==
    LET es == getAllEntries(store)
        i == FirstIndex([k \in 1..Len(es) |->
                 /\ es[k].context # <<>>
                 /\ es[k].context[1].week = Num(week)
                 /\ es[k].context[1].day = Num(day)
                 /\ es[k].context[1].promptIndex = Num(promptIndex)])
    IN IF i = 0 THEN <<>> ELSE <<es[i]>>

\* variant: a saveEntry that puts the new entry first
saveEntryFirst(store, q, entry) ==
    IF ~EntriesIterable(store) \/ ~CanWrite(q)
    THEN [threw |-> TRUE, store |-> store, quota |-> q]
    ELSE [threw |-> FALSE,
          store |-> setItem(store, "ENTRIES",
                            Json(JsonEntries(<<entry>> \o getAllEntries(store)))),
          quota |-> AfterWrite(q)]

\* saveEntry: [threw, store, quota]
saveEntry(store, q, entry) ==
    IF ~EntriesIterable(store) \/ ~CanWrite(q)
    THEN [threw |-> TRUE, store |-> store, quota |-> q]
    ELSE [threw |-> FALSE,
          store |-> setItem(store, "ENTRIES",
                            Json(JsonEntries(Append(getAllEntries(store), entry)))),
          quota |-> AfterWrite(q)]

\* variant: an updateEntry that stamps createdAt as well
updateEntryRestamping(store, q, id, content, t) ==
    LET es == getAllEntries(store)
        index == FirstIndex([k \in 1..Len(es) |-> es[k].id = id])
        updated == [es[index] EXCEPT !.content = content, !.updatedAt = t,
                                     !.createdAt = t]
    IN IF ~EntriesIterable(store)
       THEN [threw |-> TRUE, store |-> store, quota |-> q, result |-> <<>>]
       ELSE IF index = 0
       THEN [threw |-> FALSE, store |-> store, quota |-> q, result |-> <<>>]
       ELSE IF ~CanWrite(q)
       THEN [threw |-> TRUE, store |-> store, quota |-> q, result |-> <<>>]
       ELSE [threw |-> FALSE,
             store |-> setItem(store, "ENTRIES",
                               Json(JsonEntries([es EXCEPT ![index] = updated]))),
             quota |-> AfterWrite(q), result |-> <<JsonEntry(updated)>>]

\* updateEntry(id, {content}): [threw, store, quota, result]
updateEntry(store, q, id, content, t) ==
    LET es == getAllEntries(store)
        index == FirstIndex([k \in 1..Len(es) |-> es[k].id = id])
        updated == [es[index] EXCEPT !.content = content, !.updatedAt = t]
    IN IF ~EntriesIterable(store)
       THEN [threw |-> TRUE, store |-> store, quota |-> q, result |-> <<>>]
       ELSE IF index = 0
       THEN [threw |-> FALSE, store |-> store, quota |-> q, result |-> <<>>]
       ELSE IF ~CanWrite(q)
       THEN [threw |-> TRUE, store |-> store, quota |-> q, result |-> <<>>]
       ELSE [threw |-> FALSE,
             store |-> setItem(store, "ENTRIES",
                               Json(JsonEntries([es EXCEPT ![index] = updated]))),
             quota |-> AfterWrite(q), result |-> <<JsonEntry(updated)>>]

\* variant: a deleteEntry whose filter keeps the entry with the id
deleteEntryInverted(store, q, id) ==
    LET es == getAllEntries(store)
        filteredEntries == SelectSeq(es, LAMBDA e : e.id = id)
    IN IF ~EntriesIterable(store)
       THEN [threw |-> TRUE, store |-> store, quota |-> q, result |-> FALSE]
       ELSE IF Len(filteredEntries) = Len(es)
       THEN [threw |-> FALSE, store |-> store, quota |-> q, result |-> FALSE]
       ELSE IF ~CanWrite(q)
       THEN [threw |-> TRUE, store |-> store, quota |-> q, result |-> FALSE]
       ELSE [threw |-> FALSE,
             store |-> setItem(store, "ENTRIES", Json(JsonEntries(filteredEntries))),
             quota |-> AfterWrite(q), result |-> TRUE]

\* deleteEntry(id): [threw, store, quota, result]
deleteEntry(store, q, id) ==
    LET es == getAllEntries(store)
        filteredEntries == SelectSeq(es, LAMBDA e : e.id # id)
    IN IF ~EntriesIterable(store)
       THEN [threw |-> TRUE, store |-> store, quota |-> q, result |-> FALSE]
       ELSE IF Len(filteredEntries) = Len(es)
       THEN [threw |-> FALSE, store |-> store, quota |-> q, result |-> FALSE]
       ELSE IF ~CanWrite(q)
       THEN [threw |-> TRUE, store |-> store, quota |-> q, result |-> FALSE]
       ELSE [threw |-> FALSE,
             store |-> setItem(store, "ENTRIES", Json(JsonEntries(filteredEntries))),
             quota |-> AfterWrite(q), result |-> TRUE]

----------------------------------------------------------------------------
(* Journal editor (beacon-journal.js) *)

\* 'What's on your heart today?' and 'Free journal entry'
HeartPrompt == <<"h">>
FreePrompt == <<"f">>

\* the editor's module state and the modal it drives
Editor(entry, context, d) == [entry |-> entry, context |-> context, dom |-> d]

\* openEntryEditor(entryId): entryId is null (<<>>) for a new entry
openEntryEditor(store, ed, entryId) ==
    IF entryId # <<>>
    THEN LET entry == getEntryById(store, entryId[1])
         IN IF ~EntriesIterable(store) \/ entry = <<>> THEN ed
            ELSE Editor(entry, entry[1].context,
                        [active |-> TRUE,
                         promptText |-> IF entry[1].prompt # <<>>
                                        THEN entry[1].prompt ELSE FreePrompt])
    ELSE Editor(<<>>, NullContext, [active |-> TRUE, promptText |-> HeartPrompt])

\* variant: an openReflectionEditor that does not look for an existing entry
openReflectionEditorBlank(store, ed, week, day, promptIndex, promptText) ==
    IF ~EntriesIterable(store) THEN ed
    ELSE Editor(<<>>, Context(Num(week), Num(day), Num(promptIndex)),
                [active |-> TRUE, promptText |-> promptText])

\* openReflectionEditor(week, day, promptIndex, promptText)
openReflectionEditor(store, ed, week, day, promptIndex, promptText) ==
    IF ~EntriesIterable(store) THEN ed
    ELSE Editor(getEntryByContext(store, week, day, promptIndex),
                Context(Num(week), Num(day), Num(promptIndex)),
                [active |-> TRUE, promptText |-> promptText])

\* closeEntryEditor()
closeEntryEditor(ed) ==
    Editor(<<>>, NullContext, [ed.dom EXCEPT !.active = FALSE])

\* variant: a saveCurrentEntry that creates the entry without its context
saveCurrentEntryNoContext(store, q, ed, text, t, n) ==
    LET content == Trim(text)
    IN IF content = <<>>
       THEN [threw |-> FALSE, store |-> store, quota |-> q,
             ed |-> closeEntryEditor(ed), n |-> n]
       ELSE IF ed.entry # <<>>
       THEN LET u == updateEntry(store, q, ed.entry[1].id, content, t)
            IN [threw |-> u.threw, store |-> u.store, quota |-> u.quota,
                ed |-> IF u.threw THEN ed ELSE closeEntryEditor(ed), n |-> n]
       ELSE LET type == IF ed.context # NullContext THEN "reflection" ELSE "free"
                newEntry == createEntry(type, content, ed.dom.promptText,
                                        NullContext, t, n)
                w == saveEntry(store, q, newEntry)
            IN [threw |-> w.threw, store |-> w.store, quota |-> w.quota,
                ed |-> IF w.threw THEN ed ELSE closeEntryEditor(ed), n |-> n + 1]

\* variant: a saveCurrentEntry that saves whatever was typed, trimmed
saveCurrentEntryUnchecked(store, q, ed, text, t, n) ==
    LET content == Trim(text)
    IN IF ed.entry # <<>>
       THEN LET u == updateEntry(store, q, ed.entry[1].id, content, t)
            IN [threw |-> u.threw, store |-> u.store, quota |-> u.quota,
                ed |-> IF u.threw THEN ed ELSE closeEntryEditor(ed), n |-> n]
       ELSE LET type == IF ed.context # NullContext THEN "reflection" ELSE "free"
                newEntry == createEntry(type, content, ed.dom.promptText,
                                        ed.context, t, n)
                w == saveEntry(store, q, newEntry)
            IN [threw |-> w.threw, store |-> w.store, quota |-> w.quota,
                ed |-> IF w.threw THEN ed ELSE closeEntryEditor(ed), n |-> n + 1]

\* saveCurrentEntry() with `text` in the textarea: [threw, store, quota, ed, n]
saveCurrentEntry(store, q, ed, text, t, n) ==
    LET content == Trim(text)
    IN IF content = <<>>
       THEN [threw |-> FALSE, store |-> store, quota |-> q,
             ed |-> closeEntryEditor(ed), n |-> n]
       ELSE IF ed.entry # <<>>
       THEN LET u == updateEntry(store, q, ed.entry[1].id, content, t)
            IN [threw |-> u.threw, store |-> u.store, quota |-> u.quota,
                ed |-> IF u.threw THEN ed ELSE closeEntryEditor(ed), n |-> n]
       ELSE LET type == IF ed.context # NullContext THEN "reflection" ELSE "free"
                newEntry == createEntry(type, content, ed.dom.promptText,
                                        ed.context, t, n)
                w == saveEntry(store, q, newEntry)
            IN [threw |-> w.threw, store |-> w.store, quota |-> w.quota,
                ed |-> IF w.threw THEN ed ELSE closeEntryEditor(ed), n |-> n + 1]

----------------------------------------------------------------------------
(* Application start (beacon-app.js) *)

\* getUser: the parsed document, or null
getUser(store) == IF store.USER.kind = "json" THEN <<store.USER.v>> ELSE <<>>

\* isUserSetUp: user && user.partner1 && user.partner2
isUserSetUp(store) ==
    /\ getUser(store) # <<>>
    /\ getUser(store)[1].partner1 # <<>>
    /\ getUser(store)[1].partner2 # <<>>

\* initApp(): [store, quota, n, screen, result]
initApp(store, q, t, n) ==
    IF ~isUserSetUp(store)
    THEN [store |-> store, quota |-> q, n |-> n, screen |-> "setup",
          result |-> <<>>]
    ELSE LET m == migrateFromLegacy(store, q, t, n)
         IN [store |-> m.store, quota |-> m.quota, n |-> m.n, screen |-> "main",
             result |-> <<m.result>>]

\* startJourney() with the two names typed: [store, quota, screen]
startJourney(store, q, name1, name2, scr) ==
    LET partner1 == Trim(name1)
        partner2 == Trim(name2)
        s1 == setItem(store, "USER",
                      Json([partner1 |-> partner1, partner2 |-> partner2]))
        s2 == saveProgress(s1, AfterWrite(q), DefaultProgress)
    IN IF partner1 = <<>> \/ partner2 = <<>> \/ ~CanWrite(q)
       THEN [store |-> store, quota |-> q, screen |-> scr]
       ELSE IF s2.threw
       THEN [store |-> s1, quota |-> AfterWrite(q), screen |-> scr]
       ELSE [store |-> s2.store, quota |-> s2.quota, screen |-> "main"]

----------------------------------------------------------------------------
(* The application: starts, the setup screen, the editor and the store *)

\* the reflection prompts the week view offers
ReflectionSlots == {<<1, 2, 0>>, <<1, 2, 1>>}

\* what the user may type into the textarea
TypedTexts == {TextPadX, Blank}

\* the legacy records an older version may have left behind
AppLegacyDocs ==
    {Absent,
     Json(<<<<KeyReflection, StringValue(TextX)>>>>),
     Json(<<<<KeyReflection, StringValue(TextX)>>, <<KeyPadded, StringValue(TextY)>>>>),
     Json(<<<<KeyNote, StringValue(Blank)>>>>),
     Json(<<<<KeyNote,
              ObjectValue(<<Str(TextX)>>, <<>>, <<>>, <<MaxLegacyStamp>>, <<1>>)>>>>)}

UserAB == [partner1 |-> <<"a">>, partner2 |-> <<"b">>]

Init ==
    /\ ls \in [ENTRIES : {Absent},
               PROGRESS : {Absent},
               USER : {Absent, Json(UserAB)},
               LEGACY_JOURNALS : AppLegacyDocs,
               LEGACY_JOURNALS_ARCHIVED : {Absent}]
    /\ now = MaxLegacyStamp + 1
    /\ InitOther

\* the call that has just returned, without its pre-state
Call(op, result) == [op |-> op, n |-> 1, result |-> result, pre |-> <<>>]

\* the page is loaded: the modules' state is fresh and initApp runs
LoadPage ==
    LET r == initApp(ls, quota, now, nextId)
    IN /\ ls' = r.store
       /\ quota' = r.quota
       /\ nextId' = r.n
       /\ screen' = r.screen
       /\ currentEditingEntry' = <<>>
       /\ currentEditingContext' = NullContext
       /\ dom' = ModalClosed
       /\ lastCall' = Call("initApp", r.result)
       /\ UNCHANGED <<now, zone, asyncVars>>

\* the start-journey button of the setup screen
StartJourney ==
    /\ screen = "setup"
    /\ \E name1, name2 \in {<<"a">>, Blank} :
          LET r == startJourney(ls, quota, name1, name2, screen)
          IN /\ ls' = r.store
             /\ quota' = r.quota
             /\ screen' = r.screen
             /\ lastCall' = Call("startJourney", <<>>)
    /\ UNCHANGED <<now, zone, nextId, editorVars, asyncVars>>

CurrentEditor == Editor(currentEditingEntry, currentEditingContext, dom)

SetEditor(ed) ==
    /\ currentEditingEntry' = ed.entry
    /\ currentEditingContext' = ed.context
    /\ dom' = ed.dom

\* a prompt of the week view is tapped
OpenReflectionEditor ==
    /\ screen = "main"
    /\ \E slot \in ReflectionSlots :
          /\ SetEditor(openReflectionEditor(ls, CurrentEditor, slot[1], slot[2],
                                            slot[3], PromptP))
          /\ lastCall' = Call("openReflectionEditor", slot)
    /\ UNCHANGED <<ls, quota, now, zone, nextId, screen, asyncVars>>

\* the new-entry card, or the card of an entry of the journal list, is clicked
OpenEntryEditor ==
    /\ screen = "main"
    /\ \E entryId \in {<<>>} \cup {<<getAllEntries(ls)[i].id>> :
                                     i \in 1..Len(getAllEntries(ls))} :
          /\ SetEditor(openEntryEditor(ls, CurrentEditor, entryId))
          /\ lastCall' = Call("openEntryEditor", entryId)
    /\ UNCHANGED <<ls, quota, now, zone, nextId, screen, asyncVars>>

\* the modal's cancel button
CloseEntryEditor ==
    /\ dom.active
    /\ SetEditor(closeEntryEditor(CurrentEditor))
    /\ lastCall' = Call("closeEntryEditor", <<>>)
    /\ UNCHANGED <<ls, quota, now, zone, nextId, screen, asyncVars>>

\* the modal's save button
SaveCurrentEntry ==
    /\ dom.active
    /\ \E text \in TypedTexts :
          LET r == saveCurrentEntry(ls, quota, CurrentEditor, text, now, nextId)
          IN /\ r.n <= MaxIds
             /\ ls' = r.store
             /\ quota' = r.quota
             /\ nextId' = r.n
             /\ SetEditor(r.ed)
             /\ lastCall' = Call("saveCurrentEntry", text)
    /\ UNCHANGED <<now, zone, screen, asyncVars>>

\* updateEntry(id, {content}) is called on the store
UpdateEntry ==
    \E id \in 1..(nextId + 1), content \in {TextX} :
        LET r == updateEntry(ls, quota, id, content, now)
        IN /\ screen = "main"
           /\ ls' = r.store
           /\ quota' = r.quota
           /\ lastCall' = Call("updateEntry", r.threw)
           /\ UNCHANGED <<now, zone, nextId, editorVars, screen, asyncVars>>

\* deleteEntry(id) is called on the store
DeleteEntry ==
    \E id \in 1..(nextId + 1) :
        LET r == deleteEntry(ls, quota, id)
        IN /\ screen = "main"
           /\ ls' = r.store
           /\ quota' = r.quota
           /\ lastCall' = Call("deleteEntry", r.threw)
           /\ UNCHANGED <<now, zone, nextId, editorVars, screen, asyncVars>>

\* an hour passes
Tick ==
    /\ now < MaxLegacyStamp + 1 + MaxTicks
    /\ now' = now + 1
    /\ lastCall' = NoCall
    /\ UNCHANGED <<ls, quota, zone, nextId, editorVars, screen, asyncVars>>

Next ==
    \/ LoadPage
    \/ StartJourney
    \/ OpenReflectionEditor
    \/ OpenEntryEditor
    \/ CloseEntryEditor
    \/ SaveCurrentEntry
    \/ UpdateEntry
    \/ DeleteEntry
    \/ Tick

Spec == Init /\ [][Next]_vars

\* the application without direct calls of the store: starts, the setup
\* screen and the journal editor
NextEditor ==
    \/ LoadPage
    \/ StartJourney
    \/ OpenReflectionEditor
    \/ OpenEntryEditor
    \/ CloseEntryEditor
    \/ SaveCurrentEntry

SpecEditor == Init /\ [][NextEditor]_vars

----------------------------------------------------------------------------
(* Claims about the application, checked under Spec *)

\* C2: in every reachable state the persisted collection holds at most one
\* entry for each distinct context triple (week, day, promptIndex).
C2_OneEntryPerContext ==
    LET es == getAllEntries(ls)
    IN \A i, j \in 1..Len(es) :
          (i # j /\ es[i].context # NullContext) => es[i].context # es[j].context

\* the step shows the main view: initApp or startJourney called showMainApp
ShowsMainApp ==
    /\ lastCall'.op \in {"initApp", "startJourney"}
    /\ screen' = "main"

\* the step called migrateFromLegacy
RanMigration == lastCall'.op = "initApp" /\ lastCall'.result # <<>>

\* C23: on every application start the legacy migration has run before the
\* main view is rendered: no step shows the main view over a legacy record
\* that no migration has processed, also not the step that completes the
\* setup screen on a first start.
C23_MigratedBeforeMainView ==
    [][(ShowsMainApp /\ ls.LEGACY_JOURNALS # Absent) => RanMigration]_vars

----------------------------------------------------------------------------
(* The journey: completions, reads of the progress record and the reset *)

\* isDayComplete(week, day)
isDayComplete(store, week, day) ==
    HasKey(getProgress(store).completedDays, DayKey(week, day))

\* variant: a count over every week that has completed days
getCompletedWeeksCountUnbounded(store) ==
    Cardinality({week \in {getProgress(store).completedDays[i].key[1] :
                              i \in 1..Len(getProgress(store).completedDays)} :
                    \A day \in 1..7 : isDayComplete(store, week, day)})

\* getCompletedWeeksCount(): the weeks 1..8 whose seven days are all completed
getCompletedWeeksCount(store) ==
    Cardinality({week \in 1..8 : \A day \in 1..7 : isDayComplete(store, week, day)})

\* getCompletedDaysCount(): Object.keys(progress.completedDays).length
getCompletedDaysCount(store) ==
    Cardinality({getProgress(store).completedDays[i].key :
                    i \in 1..Len(getProgress(store).completedDays)})

\* clearAllData(): entries, progress and user are removed
clearAllData(store) ==
    removeItem(removeItem(removeItem(store, "ENTRIES"), "PROGRESS"), "USER")

\* the days the journey completes: the first cursor day, the last day of the
\* week, the first day of the next week and a day far from the cursor
JourneyDays == {<<1, 1>>, <<1, 7>>, <<2, 1>>, <<3, 4>>}

\* the record after the first six days of week 1 were completed, in order,
\* within the first hour
SixDaysDone ==
    [currentWeek |-> 1, currentDay |-> 7,
     completedDays |-> [d \in 1..6 |-> [key |-> DayKey(1, d), at |-> 0]],
     streak |-> 1, lastCompletedDate |-> <<0>>]

\* the same record after markDayComplete(9, 1) .. markDayComplete(9, 7): a week
\* beyond the eight weeks of content, complete, and the cursor where it was
WeekNineDone ==
    [SixDaysDone EXCEPT
        !.completedDays =
            [d \in 1..13 |-> IF d <= 6 THEN [key |-> DayKey(1, d), at |-> 0]
                             ELSE [key |-> DayKey(9, d - 6), at |-> 0]]]

\* the journey is followed for this many days after the first
MaxJourneyDay == 1

\* the writes localStorage accepts before its quota is exceeded, when limited
MaxWrites == 1

InitJourney ==
    /\ ls \in [ENTRIES : {Absent},
               PROGRESS : {Absent, Corrupt, Json(SixDaysDone), Json(WeekNineDone)},
               USER : {Json(UserAB)},
               LEGACY_JOURNALS : {Absent},
               LEGACY_JOURNALS_ARCHIVED : {Absent}]
    /\ quota \in {NoQuota} \cup {[limited |-> TRUE, left |-> k] : k \in 0..MaxWrites}
    /\ zone = "utc"
    /\ now = 0
    /\ nextId = 0
    /\ currentEditingEntry = <<>>
    /\ currentEditingContext = NullContext
    /\ dom = ModalClosed
    /\ screen = "main"
    /\ tabs = NoTabs
    /\ esv = NoEsv
    /\ lastCall = NoCall

\* markDayComplete(week, day) is called from the main screen
MarkJourneyDay ==
    /\ screen = "main"
    /\ \E key \in JourneyDays :
          LET r == markDayComplete(ls, quota, key[1], key[2], zone, now)
          IN /\ ls' = r.store
             /\ quota' = r.quota
             /\ lastCall' = [op |-> "markDayComplete", n |-> 1,
                             result |-> [threw |-> r.threw, progress |-> r.result,
                                         week |-> key[1], day |-> key[2],
                                         at |-> now, quota |-> quota],
                             pre |-> ls]
    /\ UNCHANGED <<now, zone, nextId, editorVars, screen, asyncVars>>

\* the progress view reads the record: getProgress, isDayComplete and the
\* two counters
ReadProgress ==
    /\ screen = "main"
    /\ lastCall.op # "readProgress"
    /\ lastCall' = [op |-> "readProgress", n |-> 1,
                    result |-> [progress |-> getProgress(ls),
                                complete |-> {key \in JourneyDays :
                                                 isDayComplete(ls, key[1], key[2])},
                                weeks |-> getCompletedWeeksCount(ls),
                                days |-> getCompletedDaysCount(ls)],
                    pre |-> ls]
    /\ UNCHANGED <<ls, quota, now, zone, nextId, editorVars, screen, asyncVars>>

\* resetJourney(), confirmed twice: clearAllData() and a reload of the page
ResetJourney ==
    /\ screen = "main"
    /\ LET r == initApp(clearAllData(ls), quota, now, nextId)
       IN /\ ls' = r.store
          /\ quota' = r.quota
          /\ nextId' = r.n
          /\ screen' = r.screen
    /\ lastCall' = [op |-> "resetJourney", n |-> 1, result |-> <<>>, pre |-> ls]
    /\ UNCHANGED <<now, zone, editorVars, asyncVars>>

\* a day passes
NextDay ==
    /\ now < MaxJourneyDay * HoursPerDay
    /\ now' = now + HoursPerDay
    /\ lastCall' = NoCall
    /\ UNCHANGED <<ls, quota, zone, nextId, editorVars, screen, asyncVars>>

NextJourney ==
    \/ MarkJourneyDay
    \/ ReadProgress
    \/ ResetJourney
    \/ StartJourney
    \/ NextDay

SpecJourney == InitJourney /\ [][NextJourney]_vars

----------------------------------------------------------------------------
(* Claims about the journey, checked under SpecJourney *)

\* the last call completed a new day and its record was persisted
MarkedAndSaved == MarkedNewDay /\ ~lastCall.result.threw

\* C11: markDayComplete on a day not yet completed moves the cursor only when
\* (week, day) is the cursor: to day + 1 if day < 7, else to the first day of
\* the next week; for any other day the cursor stays and the day is recorded.
C11_CursorMovesOnlyAtCursor ==
    MarkedAndSaved =>
        LET p == ProgressBefore
            q == getProgress(ls)
            week == lastCall.result.week
            day == lastCall.result.day
        IN /\ isDayComplete(ls, week, day)
           /\ lastCall.result.progress = q
           /\ <<q.currentWeek, q.currentDay>> =
                 IF week = p.currentWeek /\ day = p.currentDay
                 THEN IF day < 7 THEN <<p.currentWeek, p.currentDay + 1>>
                      ELSE <<p.currentWeek + 1, 1>>
                 ELSE <<p.currentWeek, p.currentDay>>

\* the cursor stood at (1, 7), and completing (1, 7) moved it to (2, 1)
C11_Witness ==
    /\ MarkedAndSaved
    /\ ProgressBefore.currentWeek = 1
    /\ ProgressBefore.currentDay = 7
    /\ lastCall.result.week = 1
    /\ lastCall.result.day = 7
    /\ getProgress(ls).currentWeek = 2
    /\ getProgress(ls).currentDay = 1

\* every completion of the persisted record is in the next state's record,
\* with its timestamp
CompletionsKept ==
    \A i \in 1..Len(getProgress(ls).completedDays) :
        \E j \in 1..Len(getProgress(ls').completedDays) :
            getProgress(ls').completedDays[j] = getProgress(ls).completedDays[i]

\* C12 as stated: over any sequence of operations a key of completedDays stays
\* there with its original timestamp.
C12_CompletedDaysOnlyGrows == [][CompletionsKept]_vars

\* C12 (amended): over any sequence of operations other than the journey
\* reset, a key of completedDays stays there with its original timestamp.
C12_OnlyGrowsUntilReset ==
    [][lastCall'.op # "resetJourney" => CompletionsKept]_vars

\* a second day was completed a day after the first, which is still recorded
C12_Witness ==
    /\ MarkedAndSaved
    /\ Len(ProgressBefore.completedDays) >= 1
    /\ ProgressBefore.completedDays[1].at < lastCall.result.at
    /\ getProgress(ls).completedDays[1] = ProgressBefore.completedDays[1]
    /\ isDayComplete(ls, ProgressBefore.completedDays[1].key[1],
                     ProgressBefore.completedDays[1].key[2])

ReadAll == lastCall.op = "readProgress"

\* the stored record could not be read: it is absent or not parseable
ProgressUnreadable == lastCall.pre.PROGRESS.kind # "json"

\* the reads degrade to the default record
ReadsDegrade ==
    (ReadAll /\ ProgressUnreadable) =>
        /\ lastCall.result.progress = DefaultProgress
        /\ lastCall.result.complete = {}
        /\ lastCall.result.weeks = 0
        /\ lastCall.result.days = 0

\* C13 as stated: no storage failure during a progress operation reaches the
\* caller, also not a failure to persist the record in markDayComplete.
C13_NeverPropagated ==
    /\ ReadsDegrade
    /\ Marked => ~lastCall.result.threw

\* C13 (amended): a read failure never reaches the caller (the default record
\* is used); markDayComplete raises exactly when persisting the updated record
\* fails, and then the persisted record is unchanged.
C13_OnlyWriteFailurePropagates ==
    /\ ReadsDegrade
    /\ Marked =>
          /\ lastCall.result.threw <=>
                (MarkedNewDay /\ ~CanWrite(lastCall.result.quota))
          /\ lastCall.result.threw => ls = lastCall.pre
          /\ ~lastCall.result.threw => lastCall.result.progress = getProgress(ls)
          /\ (MarkedAndSaved /\ ProgressUnreadable) =>
                getProgress(ls) =
                    CompletedProgress(DefaultProgress, lastCall.result.week,
                                      lastCall.result.day, zone, lastCall.result.at)

\* the stored record was unreadable and the quota exhausted when a day was
\* completed: the call raised
C13_Witness ==
    /\ Marked
    /\ ProgressUnreadable
    /\ lastCall.pre.PROGRESS = Corrupt
    /\ lastCall.result.threw
    /\ ls = lastCall.pre

\* the keys of the completedDays the last call read
KeysBefore ==
    {ProgressBefore.completedDays[i].key : i \in 1..Len(ProgressBefore.completedDays)}

\* C22: getCompletedWeeksCount() is the number of weeks w in 1..8 for which
\* all seven keys (w,1)..(w,7) are in completedDays; a week with six of seven
\* days, and any completed day of a week above 8, contributes 0.
C22_CompletedWeeksCount ==
    ReadAll =>
        /\ lastCall.result.weeks =
              Cardinality({w \in 1..8 : \A d \in 1..7 : DayKey(w, d) \in KeysBefore})
        /\ (\A w \in 1..8 : \E d \in 1..7 : DayKey(w, d) \notin KeysBefore)
              => lastCall.result.weeks = 0

\* week 1 and week 9 are complete and a day of week 2 is completed: the count is 1
C22_Witness ==
    /\ ReadAll
    /\ \A d \in 1..7 : {DayKey(1, d), DayKey(9, d)} \subseteq KeysBefore
    /\ DayKey(2, 1) \in KeysBefore
    /\ lastCall.result.weeks = 1

\* the cursor of a progress record, and the day of the timeline after a day
Cursor(progress) == <<progress.currentWeek, progress.currentDay>>
DayAfter(cursor) ==
    IF cursor[2] < 7 THEN <<cursor[1], cursor[2] + 1>> ELSE <<cursor[1] + 1, 1>>

\* C25: starting from the default progress and calling markDayComplete with
\* week >= 1 and day in 1..7, every reachable progress record has
\* currentWeek >= 1 and 1 <= currentDay <= 7, and each call changes the cursor
\* by at most one step.
C25_CursorStaysOnTimeline ==
    /\ getProgress(ls).currentWeek >= 1
    /\ getProgress(ls).currentDay \in 1..7
    /\ Marked =>
          Cursor(getProgress(ls)) \in
              {Cursor(ProgressBefore), DayAfter(Cursor(ProgressBefore))}

\* the last day of week 1 was completed at the cursor, and then the first day
\* of week 2: the cursor is at (2, 2)
C25_Witness ==
    /\ MarkedAndSaved
    /\ Cursor(ProgressBefore) = <<2, 1>>
    /\ lastCall.result.week = 2
    /\ lastCall.result.day = 1
    /\ HasKey(getProgress(ls).completedDays, DayKey(1, 7))
    /\ Cursor(getProgress(ls)) = <<2, 2>>

\* C28: in every progress record reachable from the default by
\* markDayComplete calls, streak is at most the number of keys in
\* completedDays, and streak >= 1 holds exactly when lastCompletedDate is
\* non-null, which holds exactly when completedDays is non-empty.
C28_StreakBoundedByDays ==
    LET p == getProgress(ls)
    IN /\ p.streak <= getCompletedDaysCount(ls)
       /\ p.streak >= 1 <=> p.lastCompletedDate # <<>>
       /\ p.lastCompletedDate # <<>> <=> p.completedDays # <<>>

\* three days were completed, two of them on one date: the streak is 2
C28_Witness ==
    /\ Marked
    /\ getCompletedDaysCount(ls) = 3
    /\ getProgress(ls).streak = 2
    /\ getProgress(ls).lastCompletedDate = <<now>>

----------------------------------------------------------------------------
(* The entry store, called operation by operation *)

\* getEntriesByType(type)
getEntriesByType(store, type) ==
    SelectSeq(getAllEntries(store), LAMBDA e : e.type = type)

\* getEntryCount(): getAllEntries().length, undefined (<<>>) when the parsed
\* document has no length
getEntryCount(store) ==
    IF EntriesIterable(store) THEN <<Len(getAllEntries(store))>> ELSE <<>>

\* a free entry written before
EarlierFreeEntry ==
    [id |-> 2, type |-> "free", content |-> TextX, prompt |-> <<>>,
     context |-> NullContext, createdAt |-> 0, updatedAt |-> 0]

\* the store operations are followed until this many ids were handed out
MaxStoreIds == 3

\* and until this hour
MaxStoreHour == 2

\* the entries a caller constructs: a free entry, a reflection and a
\* reflection for the slot of EarlierEntry
NewEntries(t, n) ==
    {createEntry("free", TextY, <<>>, NullContext, t, n),
     createEntry("reflection", TextX, PromptP, Context(Num(1), Num(3), Num(0)), t, n),
     createEntry("reflection", TextX, PromptP, Context(Num(1), Num(2), Num(0)), t, n)}

\* the slots getEntryByContext is asked for: the slot of EarlierEntry, another
\* prompt of that day and the same prompt of another day
ContextQueries == {<<1, 2, 0>>, <<1, 2, 1>>, <<1, 3, 0>>}

InitStore ==
    /\ ls \in [ENTRIES : {Absent, Corrupt, NotArray, Json(<<>>),
                          Json(<<EarlierEntry, EarlierFreeEntry>>)},
               PROGRESS : {Absent},
               USER : {Json(UserAB)},
               LEGACY_JOURNALS : {Absent},
               LEGACY_JOURNALS_ARCHIVED : {Absent}]
    /\ quota \in {NoQuota} \cup {[limited |-> TRUE, left |-> k] : k \in 0..MaxWrites}
    /\ zone = "utc"
    /\ now = 1
    /\ nextId = 2
    /\ currentEditingEntry = <<>>
    /\ currentEditingContext = NullContext
    /\ dom = ModalClosed
    /\ screen = "main"
    /\ tabs = NoTabs
    /\ esv = NoEsv
    /\ lastCall = NoCall

\* saveEntry(createEntry(...))
StoreSave ==
    /\ nextId < MaxStoreIds
    /\ \E entry \in NewEntries(now, nextId) :
          LET r == saveEntry(ls, quota, entry)
          IN /\ ls' = r.store
             /\ quota' = r.quota
             /\ lastCall' = [op |-> "saveEntry", n |-> 1,
                             result |-> [threw |-> r.threw, entry |-> entry,
                                         quota |-> quota],
                             pre |-> ls]
    /\ nextId' = nextId + 1
    /\ UNCHANGED <<now, zone, editorVars, screen, asyncVars>>

\* updateEntry(id, {content: X}), also for an id no entry has
StoreUpdate ==
    /\ \E id \in 1..(nextId + 1), content \in {TextX} :
          LET r == updateEntry(ls, quota, id, content, now)
          IN /\ ls' = r.store
             /\ quota' = r.quota
             /\ lastCall' = [op |-> "updateEntry", n |-> 1,
                             result |-> [threw |-> r.threw, id |-> id,
                                         content |-> content, at |-> now,
                                         entry |-> r.result, quota |-> quota],
                             pre |-> ls]
    /\ UNCHANGED <<now, zone, nextId, editorVars, screen, asyncVars>>

\* deleteEntry(id), also for an id no entry has
StoreDelete ==
    /\ \E id \in 1..(nextId + 1) :
          LET r == deleteEntry(ls, quota, id)
          IN /\ ls' = r.store
             /\ quota' = r.quota
             /\ lastCall' = [op |-> "deleteEntry", n |-> 1,
                             result |-> [threw |-> r.threw, id |-> id,
                                         deleted |-> r.result, quota |-> quota],
                             pre |-> ls]
    /\ UNCHANGED <<now, zone, nextId, editorVars, screen, asyncVars>>

\* an hour passes
StoreTick ==
    /\ now < MaxStoreHour
    /\ now' = now + 1
    /\ lastCall' = NoCall
    /\ UNCHANGED <<ls, quota, zone, nextId, editorVars, screen, asyncVars>>

\* entries.find, entries.filter: a TypeError when the parsed document is no array
ReadRaises(store) == ~EntriesIterable(store)

\* the read operations: getAllEntries, getEntryCount, getEntryById,
\* getEntryByContext and getEntriesByType
StoreRead ==
    /\ \E id \in {1}, type \in {"free", "reflection"}, slot \in ContextQueries :
          lastCall' =
              [op |-> "read", n |-> 1,
               result |-> [id |-> id, type |-> type, slot |-> slot,
                           listAll |-> [isArray |-> EntriesIterable(ls),
                                        v |-> getAllEntries(ls)],
                           count |-> getEntryCount(ls),
                           byId |-> [threw |-> ReadRaises(ls),
                                     v |-> getEntryById(ls, id)],
                           byContext |-> [threw |-> ReadRaises(ls),
                                          v |-> getEntryByContext(ls, slot[1], slot[2],
                                                                  slot[3])],
                           byType |-> [threw |-> ReadRaises(ls),
                                       v |-> getEntriesByType(ls, type)]],
               pre |-> ls]
    /\ UNCHANGED <<ls, quota, now, zone, nextId, editorVars, screen, asyncVars>>

NextStore ==
    \/ StoreSave
    \/ StoreUpdate
    \/ StoreDelete
    \/ StoreRead
    \/ StoreTick

SpecStore == InitStore /\ [][NextStore]_vars

----------------------------------------------------------------------------
(* Claims about the entry store, checked under SpecStore *)

Saved == lastCall.op = "saveEntry"

\* the setItem of the last call was accepted
WriteAccepted == CanWrite(lastCall.result.quota)

\* C14: save(entry), when the write succeeds, leaves the previous collection
\* in its order with the entry appended last; when the write fails the
\* failure is raised and the persisted collection is unchanged.
C14_SaveAppendsOrRaises ==
    Saved =>
        /\ (EntriesIterable(lastCall.pre) /\ WriteAccepted) =>
              /\ ~lastCall.result.threw
              /\ getAllEntries(ls) =
                    Append(getAllEntries(lastCall.pre), lastCall.result.entry)
        /\ ~WriteAccepted =>
              /\ lastCall.result.threw
              /\ ls = lastCall.pre

\* an entry was appended to two earlier entries
C14_Witness ==
    /\ Saved
    /\ ~lastCall.result.threw
    /\ Len(getAllEntries(lastCall.pre)) = 2
    /\ Len(getAllEntries(ls)) = 3
    /\ getAllEntries(ls)[3] = lastCall.result.entry

Updated == lastCall.op = "updateEntry"

\* the id the last call was given is the id of a persisted entry
KnownId ==
    \E k \in 1..Len(getAllEntries(lastCall.pre)) :
        getAllEntries(lastCall.pre)[k].id = lastCall.result.id

\* C15: update(id, {content: X}) on an existing entry changes only that
\* entry's content and updatedAt; its id, type, context, createdAt and
\* position, and every other entry, are unchanged. On an unknown id it returns
\* absent and leaves the persisted collection unchanged.
C15_UpdateChangesContentOnly ==
    (Updated /\ ~lastCall.result.threw) =>
        LET old == getAllEntries(lastCall.pre)
            cur == getAllEntries(ls)
        IN IF KnownId
           THEN /\ Len(cur) = Len(old)
                /\ \A k \in 1..Len(old) :
                      IF old[k].id = lastCall.result.id
                      THEN /\ cur[k].id = old[k].id
                           /\ cur[k].type = old[k].type
                           /\ cur[k].context = old[k].context
                           /\ cur[k].createdAt = old[k].createdAt
                           /\ cur[k].prompt = old[k].prompt
                           /\ cur[k].content = lastCall.result.content
                           /\ cur[k].updatedAt = lastCall.result.at
                           /\ lastCall.result.entry = <<cur[k]>>
                      ELSE cur[k] = old[k]
           ELSE /\ lastCall.result.entry = <<>>
                /\ ls = lastCall.pre

\* the first of two entries was given a new content, an hour after its creation
C15_Witness ==
    /\ Updated
    /\ ~lastCall.result.threw
    /\ KnownId
    /\ Len(getAllEntries(ls)) >= 2
    /\ getAllEntries(ls)[1].id = lastCall.result.id
    /\ getAllEntries(lastCall.pre)[1].content # lastCall.result.content
    /\ getAllEntries(ls)[1].content = lastCall.result.content
    /\ getAllEntries(ls)[1].updatedAt > getAllEntries(ls)[1].createdAt

Deleted == lastCall.op = "deleteEntry"

\* C16: remove(id) on an existing id returns true, findById(id) is absent
\* afterwards and the other entries keep their relative order; on an unknown
\* id it returns false and the persisted collection is unchanged.
C16_RemoveDropsExactlyThatEntry ==
    (Deleted /\ ~lastCall.result.threw) =>
        LET old == getAllEntries(lastCall.pre)
            cur == getAllEntries(ls)
        IN IF KnownId
           THEN /\ lastCall.result.deleted
                /\ getEntryById(ls, lastCall.result.id) = <<>>
                /\ \E k \in 1..Len(old) :
                      /\ old[k].id = lastCall.result.id
                      /\ cur = SubSeq(old, 1, k - 1) \o SubSeq(old, k + 1, Len(old))
           ELSE /\ ~lastCall.result.deleted
                /\ ls = lastCall.pre
                /\ Len(cur) = Len(old)

\* the second of three entries was removed
C16_Witness ==
    /\ Deleted
    /\ lastCall.result.deleted
    /\ Len(getAllEntries(lastCall.pre)) = 3
    /\ getAllEntries(lastCall.pre)[2].id = lastCall.result.id
    /\ getAllEntries(ls) =
          <<getAllEntries(lastCall.pre)[1], getAllEntries(lastCall.pre)[3]>>

\* C20: when the persisted entries document is absent or corrupt (unparseable,
\* or parseable but not an array) listAll returns an empty sequence without
\* raising, count returns 0, findById and findByContext return absent and
\* listByType returns an empty sequence.
C20_ReadsFailSoft ==
    (lastCall.op = "read" /\ lastCall.pre.ENTRIES.kind # "json") =>
        /\ lastCall.result.listAll = [isArray |-> TRUE, v |-> <<>>]
        /\ lastCall.result.count = <<0>>
        /\ lastCall.result.byId = [threw |-> FALSE, v |-> <<>>]
        /\ lastCall.result.byContext = [threw |-> FALSE, v |-> <<>>]
        /\ lastCall.result.byType = [threw |-> FALSE, v |-> <<>>]

\* C21: findByContext(week, day, promptIndex) returns absent exactly when no
\* persisted entry has a context equal to the triple in all three fields, and
\* otherwise the earliest-inserted entry with that context; an entry without
\* context is never returned.
C21_FindByContext ==
    (lastCall.op = "read" /\ EntriesIterable(lastCall.pre)) =>
        LET es == getAllEntries(lastCall.pre)
            slot == lastCall.result.slot
            triple == Context(Num(slot[1]), Num(slot[2]), Num(slot[3]))
            found == lastCall.result.byContext.v
        IN /\ ~lastCall.result.byContext.threw
           /\ found = <<>> <=> \A k \in 1..Len(es) : es[k].context # triple
           /\ found # <<>> =>
                 /\ found[1].context # NullContext
                 /\ \E k \in 1..Len(es) :
                       /\ es[k].context = triple
                       /\ found[1] = es[k]
                       /\ \A j \in 1..(k - 1) : es[j].context # triple

\* two entries have the context asked for, a free entry lies between them, and
\* the one inserted first is returned
C21_Witness ==
    /\ lastCall.op = "read"
    /\ lastCall.result.slot = <<1, 2, 0>>
    /\ Len(getAllEntries(lastCall.pre)) = 3
    /\ getAllEntries(lastCall.pre)[1].context = Context(Num(1), Num(2), Num(0))
    /\ getAllEntries(lastCall.pre)[2].context = NullContext
    /\ getAllEntries(lastCall.pre)[3].context = Context(Num(1), Num(2), Num(0))
    /\ lastCall.result.byContext.v = <<getAllEntries(lastCall.pre)[1]>>

----------------------------------------------------------------------------
(* The journal editor on its own *)

\* the journal editor alone, on a collection written through it before
InitSlots ==
    /\ ls \in [ENTRIES : {Absent, Json(<<EarlierEntry, EarlierFreeEntry>>)},
               PROGRESS : {Absent},
               USER : {Json(UserAB)},
               LEGACY_JOURNALS : {Absent},
               LEGACY_JOURNALS_ARCHIVED : {Absent}]
    /\ quota \in {NoQuota} \cup {[limited |-> TRUE, left |-> k] : k \in 0..MaxWrites}
    /\ zone = "utc"
    /\ now = 1
    /\ nextId = Len(getAllEntries(ls))
    /\ currentEditingEntry = <<>>
    /\ currentEditingContext = NullContext
    /\ dom = ModalClosed
    /\ screen = "main"
    /\ tabs = NoTabs
    /\ esv = NoEsv
    /\ lastCall = NoCall

NextSlots ==
    \/ OpenReflectionEditor
    \/ OpenEntryEditor
    \/ CloseEntryEditor
    \/ SaveCurrentEntry

SpecSlots == InitSlots /\ [][NextSlots]_vars

\* no two persisted entries have the same context
SlotsUnique ==
    \A i, j \in 1..Len(getAllEntries(ls)) :
        (i # j /\ getAllEntries(ls)[i].context # NullContext)
            => getAllEntries(ls)[i].context # getAllEntries(ls)[j].context

\* the step is a save of a text for a slot that went through
SavesForSlot ==
    /\ lastCall'.op = "saveCurrentEntry"
    /\ currentEditingContext # NullContext
    /\ Trim(lastCall'.result) # <<>>
    /\ ~dom'.active

\* a save for a slot that has an entry gives that entry the text and keeps the
\* number of entries; a save for a slot without entry adds one entry, for it
SlotSaveUpdatesOrAdds ==
    SavesForSlot =>
        LET slot == currentEditingContext[1]
            existing == getEntryByContext(ls, slot.week.n, slot.day.n,
                                          slot.promptIndex.n)
            saved == getEntryByContext(ls', slot.week.n, slot.day.n,
                                       slot.promptIndex.n)
        IN /\ saved # <<>>
           /\ saved[1].content = Trim(lastCall'.result)
           /\ IF existing # <<>>
              THEN /\ Len(getAllEntries(ls')) = Len(getAllEntries(ls))
                   /\ saved[1].id = existing[1].id
              ELSE /\ Len(getAllEntries(ls')) = Len(getAllEntries(ls)) + 1
                   /\ getAllEntries(ls') = Append(getAllEntries(ls), saved[1])

\* C26: starting from a collection with at most one entry per context, any
\* sequence of openReflectionEditor, openEntryEditor, closeEntryEditor and
\* saveCurrentEntry keeps at most one entry per context: a save for a slot
\* that has an entry updates that entry's content and leaves the entry count
\* unchanged, and a save for an empty slot adds exactly one entry.
C26_EditorKeepsOnePerContext ==
    [](SlotsUnique) /\ [][SlotSaveUpdatesOrAdds]_vars

\* the reflection of slot (1, 2, 0) was given a new text through the editor
\* and a reflection for the empty slot (1, 2, 1) was added
C26_Witness ==
    /\ lastCall.op = "saveCurrentEntry"
    /\ ~dom.active
    /\ Len(getAllEntries(ls)) = 3
    /\ getAllEntries(ls)[1].id = EarlierEntry.id
    /\ getAllEntries(ls)[1].context = EarlierEntry.context
    /\ getAllEntries(ls)[1].content = TextX
    /\ getAllEntries(ls)[3].context = Context(Num(1), Num(2), Num(1))

----------------------------------------------------------------------------
(* Two browsing contexts mutate the entry store. Inside saveEntry,          *)
(* updateEntry and deleteEntry the collection is read (getAllEntries) and   *)
(* rewritten as a whole (setItem) in two storage accesses, between which    *)
(* another context may access the store.                                    *)

\* the mutation a context is inside of
SaveOp(entry) ==
    [name |-> "saveEntry", id |-> entry.id, entry |-> <<entry>>, content |-> <<>>]
UpdateOp(id, content) ==
    [name |-> "updateEntry", id |-> id, entry |-> <<>>, content |-> content]
DeleteOp(id) ==
    [name |-> "deleteEntry", id |-> id, entry |-> <<>>, content |-> <<>>]

\* the mutations a context may begin at hour t when n ids were handed out
TabOps(t, n) ==
    {SaveOp(createEntry("free", TextY, <<>>, NullContext, t, n))}
        \cup {UpdateOp(id, TextX) : id \in {1}}
        \cup {DeleteOp(id) : id \in {1, n + 1}}

\* variant: a rewrite computed from the collection as it is persisted now
RewriteFresh(store, q, op, doc, t) ==
    IF op.name = "saveEntry"
    THEN LET r == saveEntry(store, q, op.entry[1])
         IN [wrote |-> ~r.threw, doc |-> r.store.ENTRIES, quota |-> r.quota]
    ELSE IF op.name = "updateEntry"
    THEN LET r == updateEntry(store, q, op.id, op.content, t)
         IN [wrote |-> r.result # <<>>, doc |-> r.store.ENTRIES, quota |-> r.quota]
    ELSE LET r == deleteEntry(store, q, op.id)
         IN [wrote |-> r.result, doc |-> r.store.ENTRIES, quota |-> r.quota]

\* the rest of a mutation after its getAllEntries() returned doc: the new
\* collection is computed from doc and, unless the mutation returns early,
\* written: [wrote, doc, quota]
Rewrite(store, q, op, doc, t) ==
    LET seen == setItem(store, "ENTRIES", doc)
    IN IF op.name = "saveEntry"
       THEN LET r == saveEntry(seen, q, op.entry[1])
            IN [wrote |-> ~r.threw, doc |-> r.store.ENTRIES, quota |-> r.quota]
       ELSE IF op.name = "updateEntry"
       THEN LET r == updateEntry(seen, q, op.id, op.content, t)
            IN [wrote |-> r.result # <<>>, doc |-> r.store.ENTRIES, quota |-> r.quota]
       ELSE LET r == deleteEntry(seen, q, op.id)
            IN [wrote |-> r.result, doc |-> r.store.ENTRIES, quota |-> r.quota]

InitTabs ==
    /\ ls \in [ENTRIES : {Json(<<>>), Json(<<EarlierEntry, EarlierFreeEntry>>)},
               PROGRESS : {Absent},
               USER : {Json(UserAB)},
               LEGACY_JOURNALS : {Absent},
               LEGACY_JOURNALS_ARCHIVED : {Absent}]
    /\ quota = NoQuota
    /\ zone = "utc"
    /\ now = 1
    /\ nextId = 2
    /\ currentEditingEntry = <<>>
    /\ currentEditingContext = NullContext
    /\ dom = ModalClosed
    /\ screen = "main"
    /\ tabs = NoTabs
    /\ esv = NoEsv
    /\ lastCall = NoCall

\* context c enters a mutation, which reads the collection
TabBegin(c) ==
    /\ tabs[c].pc = "idle"
    /\ \E op \in TabOps(now, nextId) :
          /\ op.name = "saveEntry" => nextId < MaxStoreIds
          /\ tabs' = [tabs EXCEPT ![c] = [pc |-> "read", op |-> <<op>>,
                                          entries |-> ls.ENTRIES, missed |-> {}]]
          /\ nextId' = IF op.name = "saveEntry" THEN nextId + 1 ELSE nextId
    /\ lastCall' = NoCall
    /\ UNCHANGED <<ls, quota, now, zone, editorVars, screen, esv>>

\* context c finishes its mutation: the collection computed from what it read
\* is written. The contexts that have read and not yet written miss the change.
TabWrite(c) ==
    /\ tabs[c].pc = "read"
    /\ LET op == tabs[c].op[1]
           r == Rewrite(ls, quota, op, tabs[c].entries, now)
       IN /\ ls' = IF r.wrote THEN setItem(ls, "ENTRIES", r.doc) ELSE ls
          /\ quota' = r.quota
          /\ tabs' = [d \in TabIds |->
                         IF d = c THEN IdleTab
                         ELSE IF tabs[d].pc = "read" /\ r.wrote
                         THEN [tabs[d] EXCEPT !.missed = @ \cup {op}]
                         ELSE tabs[d]]
          /\ lastCall' = [op |-> "rewrite", n |-> c,
                          result |-> [op |-> op, entries |-> tabs[c].entries,
                                      missed |-> tabs[c].missed, wrote |-> r.wrote],
                          pre |-> ls]
    /\ UNCHANGED <<now, zone, nextId, editorVars, screen, esv>>

NextTabs ==
    \/ \E c \in TabIds : TabBegin(c)
    \/ \E c \in TabIds : TabWrite(c)

SpecTabs == InitTabs /\ [][NextTabs]_vars

\* the last step was a context's rewrite of the collection
Rewrote == lastCall.op = "rewrite" /\ lastCall.result.wrote

\* the collection the rewriting context had read
ReadBefore == setItem(ls, "ENTRIES", lastCall.result.entries)

\* C24: the entry store has no guard against concurrent writers: if another
\* context's save, update or remove happens between a context's read of the
\* collection and its rewrite, that change is lost from the persisted
\* collection: the entry it concerned is again as the rewriting context read
\* it (absent for a save, with its earlier content for an update, present for
\* a remove), or as the rewriting context's own operation on that entry left it.
C24_ConcurrentChangeIsLost ==
    Rewrote =>
        \A m \in lastCall.result.missed :
            LET own == lastCall.result.op
                seen == getEntryById(ReadBefore, m.id)
                after == getEntryById(ls, m.id)
            IN IF own.id # m.id THEN after = seen
               ELSE IF own.name = "deleteEntry" THEN after = <<>>
               ELSE IF own.name = "updateEntry"
               THEN after = <<[seen[1] EXCEPT !.content = own.content,
                                              !.updatedAt = now]>>
               ELSE after = own.entry

\* a context read the collection, the other context saved an entry, and the
\* first context's update of another entry removed the saved entry again
C24_Witness ==
    /\ Rewrote
    /\ lastCall.result.op.name = "updateEntry"
    /\ \E m \in lastCall.result.missed :
          /\ m.name = "saveEntry"
          /\ getEntryById(lastCall.pre, m.id) = m.entry
          /\ getEntryById(ls, m.id) = <<>>

----------------------------------------------------------------------------
(* Claims about the persisted entries of the application, checked under Spec *)
(* (C17) and under SpecEditor (C18, C19)                                    *)

\* the entry of the next state that has the id of entry e, if there is one
SameEntryNext(e) ==
    LET i == FirstIndex([k \in 1..Len(getAllEntries(ls')) |->
                            getAllEntries(ls')[k].id = e.id])
    IN IF i = 0 THEN <<>> ELSE <<getAllEntries(ls')[i]>>

\* createdAt of a persisted entry is the same in the next state
CreatedAtKept ==
    \A k \in 1..Len(getAllEntries(ls)) :
        LET e == getAllEntries(ls)[k]
        IN SameEntryNext(e) # <<>> => SameEntryNext(e)[1].createdAt = e.createdAt

\* every persisted entry was last changed no earlier than it was created
StampsOrdered ==
    \A k \in 1..Len(getAllEntries(ls)) :
        getAllEntries(ls)[k].updatedAt >= getAllEntries(ls)[k].createdAt

\* C17: every persisted entry has updatedAt >= createdAt in every reachable
\* state, however it was created, updated or migrated, and its createdAt
\* never changes.
C17_UpdatedNotBeforeCreated == [](StampsOrdered) /\ [][CreatedAtKept]_vars

\* C18: every persisted entry, saved through the editor or produced by
\* migration, has a non-null context if and only if its type is reflection,
\* and a null context if and only if its type is free.
C18_ContextIffReflection ==
    \A k \in 1..Len(getAllEntries(ls)) :
        LET e == getAllEntries(ls)[k]
        IN /\ e.type \in {"reflection", "free"}
           /\ e.context # NullContext <=> e.type = "reflection"
           /\ e.context = NullContext <=> e.type = "free"

\* the editor has just saved, and the collection holds a reflection and a
\* free entry
C18_Witness ==
    /\ lastCall.op = "saveCurrentEntry"
    /\ \E i, j \in 1..Len(getAllEntries(ls)) :
          /\ getAllEntries(ls)[i].type = "reflection"
          /\ getAllEntries(ls)[i].context = Context(Num(1), Num(2), Num(0))
          /\ getAllEntries(ls)[j].type = "free"
          /\ getAllEntries(ls)[j].context = NullContext

\* every persisted entry has a content that is not empty after trimming
NoEmptyContent ==
    \A k \in 1..Len(getAllEntries(ls)) : Trim(getAllEntries(ls)[k].content) # <<>>

\* a save with an empty or whitespace-only text leaves the collection as it is
EmptySaveKeeps ==
    (lastCall'.op = "saveCurrentEntry" /\ Trim(lastCall'.result) = <<>>) =>
        ls'.ENTRIES = ls.ENTRIES

\* C19: no entry with empty content is ever persisted, by editor saves or by
\* migration, and a save attempted with empty or whitespace-only text leaves
\* the collection unchanged.
C19_NeverPersistedEmpty == [](NoEmptyContent) /\ [][EmptySaveKeeps]_vars

\* the editor was saved with a whitespace-only text while an entry existed
C19_Witness ==
    /\ lastCall.op = "saveCurrentEntry"
    /\ lastCall.result = Blank
    /\ Len(getAllEntries(ls)) >= 1
    /\ ~dom.active

----------------------------------------------------------------------------
(* ESV lookups (beacon-esv.js and the handlers of beacon-app.js): a handler *)
(* runs up to its await, the response arrives in a later turn of the event  *)
(* loop and the rest of the handler writes the results area                 *)

\* each modal's handler is followed for this many requests
MaxRequests == 2

\* what is typed into the modal's input
EsvInputs == {<<"j">>, <<" ", "r">>, Blank}

\* what fetch may come back with: passages / results, an empty answer, a
\* status that is not ok, or a rejected promise
EsvResponses == {"found", "empty", "status", "rejected"}

\* lookupVerse(reference), given what fetch came back with
lookupVerse(reference, response) ==
    IF Trim(reference) = <<>> THEN [success |-> FALSE, q |-> reference]
    ELSE [success |-> response = "found", q |-> Trim(reference)]

\* searchTopic(query), given what fetch came back with
searchTopic(query, response) ==
    IF Trim(query) = <<>> THEN [success |-> FALSE, q |-> query]
    ELSE [success |-> response = "found", q |-> Trim(query)]

\* the results area after the handler of request seq got its result
ResultsOf(seq, result) ==
    [shows |-> IF result.success THEN "result" ELSE "error", of |-> seq,
     q |-> result.q]

\* the loading line the handler of request seq writes before its await
Loading(seq, q) == [shows |-> "loading", of |-> seq, q |-> q]

InitEsv ==
    /\ ls = [ENTRIES |-> Absent, PROGRESS |-> Absent, USER |-> Json(UserAB),
             LEGACY_JOURNALS |-> Absent, LEGACY_JOURNALS_ARCHIVED |-> Absent]
    /\ quota = NoQuota
    /\ zone = "utc"
    /\ now = 0
    /\ nextId = 0
    /\ currentEditingEntry = <<>>
    /\ currentEditingContext = NullContext
    /\ dom = ModalClosed
    /\ screen = "main"
    /\ tabs = NoTabs
    /\ esv = NoEsv
    /\ lastCall = NoCall

\* openVerseLookup / openTopicSearch: the results area is emptied
OpenEsvModal(m) ==
    /\ esv[m].results # NoResults
    /\ esv' = [esv EXCEPT ![m].results = NoResults]
    /\ lastCall' = Call("openEsvModal", m)
    /\ UNCHANGED <<ls, quota, now, zone, nextId, editorVars, screen, tabs>>

\* handleVerseLookup / handleTopicSearch up to the await: a blank input
\* returns, any other writes the loading line and sends the request
HandleEsv(m) ==
    /\ esv[m].submitted < MaxRequests
    /\ \E input \in EsvInputs :
          LET q == Trim(input)
              seq == esv[m].submitted + 1
          IN /\ esv' = IF q = <<>> THEN esv
                       ELSE [esv EXCEPT ![m] =
                                [results |-> Loading(seq, q),
                                 pending |-> @.pending \cup {[seq |-> seq, q |-> q]},
                                 submitted |-> seq,
                                 overlapped |-> @.overlapped \/ @.pending # {}]]
             /\ lastCall' = Call(IF m = "lookup" THEN "handleVerseLookup"
                                 ELSE "handleTopicSearch", input)
    /\ UNCHANGED <<ls, quota, now, zone, nextId, editorVars, screen, tabs>>

\* the response of a request in flight arrives, in any order: the handler
\* resumes after its await and writes the results area
EsvResponse(m) ==
    /\ \E r \in esv[m].pending, response \in EsvResponses :
          LET result == IF m = "lookup" THEN lookupVerse(r.q, response)
                        ELSE searchTopic(r.q, response)
          IN /\ esv' = [esv EXCEPT ![m].results = ResultsOf(r.seq, result),
                                   ![m].pending = @ \ {r}]
             /\ lastCall' = Call("response", r.seq)
    /\ UNCHANGED <<ls, quota, now, zone, nextId, editorVars, screen, tabs>>

NextEsv ==
    \/ \E m \in EsvModals : OpenEsvModal(m)
    \/ \E m \in EsvModals : HandleEsv(m)
    \/ \E m \in EsvModals : EsvResponse(m)

SpecEsv == InitEsv /\ [][NextEsv]_vars

\* C30: if two verse lookups (or two topic searches) are started before either
\* response has arrived, then once both have completed the results area shows
\* the outcome of the request submitted last, whatever order the responses
\* arrive in.
C30_LastRequestShown ==
    \A m \in EsvModals :
        (esv[m].overlapped /\ esv[m].pending = {}
            /\ esv[m].results.shows \in {"result", "error"})
            => esv[m].results.of = esv[m].submitted

====
